---- MODULE Spec2Model ----
(***************************************************************************)
(* Model of the ScrewdriverHolderGenerator add-in (wemcdonald/boxr):       *)
(* csv tool list -> validation gate -> grid layout -> build plan issued    *)
(* against the modeling backend.                                           *)
(*                                                                         *)
(* Lengths are integers in units of 0.1 mm.  Every input length is an even *)
(* number of units (a multiple of 0.2 mm), so every halving the source     *)
(* performs (x / 2) is exact and Half below loses nothing; HalvesExact     *)
(* states this for the halvings of the layout.  Coordinates handed to the  *)
(* backend are in cm (_mm_to_cm); backend edge coordinates are integers in *)
(* units of 1e-5 cm, so one length unit is FinePerUnit of them.            *)
(***************************************************************************)
EXTENDS Integers, Sequences, FiniteSets, TLC

VARIABLES
    pc,        \* "idle" | "message" (handler), "fn" | "applied" (function harness)
    doc,       \* the design document: root bodies and root occurrences
    tools,     \* the enabled tools read from the csv
    params,    \* numbers_mm and strings of ensure_user_parameters
    layout,    \* result of compute_layout, or NoLayout
    checks,    \* result of each validator: NotRun, NoError or the raised message
    trace,     \* calls issued in this run, in order (validators and backend calls)
    warnings,  \* list returned by build_holder
    edges      \* what the backend's body.edges enumerations returned in this run

vars == <<pc, doc, tools, params, layout, checks, trace, warnings, edges>>

----------------------------------------------------------------------------
(* Bounds of the explored inputs *)

MaxTools == 2
MaxRow == 1
MaxCol == 1

----------------------------------------------------------------------------
(* Arithmetic helpers *)

Half(v) == v \div 2
Abs(v) == IF v < 0 THEN 0 - v ELSE v
Max(a, b) == IF a >= b THEN a ELSE b
SetMax(S) == CHOOSE m \in S : \A x \in S : x <= m

\* a Python dict is a function whose DOMAIN is the set of keys
EmptyDict == [k \in {} |-> 0]
Put(d, k, v) == [x \in (DOMAIN d) \cup {k} |-> IF x = k THEN v ELSE d[x]]
Get(d, k, default) == IF k \in DOMAIN d THEN d[k] ELSE default
SetDefault(d, k, v) == IF k \in DOMAIN d THEN d ELSE Put(d, k, v)

\* sum(values[i] for i in range(n))
RECURSIVE SumRange(_, _)
SumRange(values, n) == IF n <= 0 THEN 0 ELSE SumRange(values, n - 1) + values[n - 1]

----------------------------------------------------------------------------
(* Tools (csv_reader.Tool) *)

Tool(name, row, col, handle, shaft) ==
    [name |-> name, row |-> row, col |-> col, handle_d_mm |-> handle, shaft_d_mm |-> shaft]

\* names of the csv rows, by position in the file
ToolNames == <<"T10", "PH2", "SL3", "TX8">>
NameAt(i) == ToolNames[((i - 1) % Len(ToolNames)) + 1]

\* <<handle_d_mm, shaft_d_mm>> of the tool in csv row i: the regular driver of that
\* row (T10 18/5, PH2 22/6.4, ...) or a stubby one whose shaft is wider than its handle
RegularSize(i) == IF i % 2 = 1 THEN <<180, 50>> ELSE <<220, 64>>
StubbySize == <<100, 300>>
SizesAt(i) == {RegularSize(i), StubbySize}

\* well-formed rows
GoodToolsAt(i) ==
    {Tool(NameAt(i), r, c, sz[1], sz[2]) : r \in 0..MaxRow, c \in 0..MaxCol, sz \in SizesAt(i)}

\* rows with one ill-formed field
BadToolsAt(i) ==
    LET h == RegularSize(i)[1]
        s == RegularSize(i)[2]
    IN  { Tool("", 0, 0, h, s),
          Tool(NameAt(i), -1, 0, h, s),
          Tool(NameAt(i), 0, -1, h, s),
          Tool(NameAt(i), 0, 0, 0, s),
          Tool(NameAt(i), 0, 0, h, 0),
          Tool(NameAt(i), 0, 0, h, -2) }

\* the lists of n rows whose i-th row is drawn from choices[i]
RECURSIVE ListsOver(_, _)
ListsOver(choices, n) ==
    IF n = 0 THEN {<<>>}
    ELSE {Append(l, t) : l \in ListsOver(choices, n - 1), t \in choices[n]}

\* the rows a csv handed to the command holds: the regular driver in any cell, a
\* stubby one in the first cell, or a row with a zero handle diameter
RunToolsAt(i) ==
    {Tool(NameAt(i), r, c, RegularSize(i)[1], RegularSize(i)[2]) : r \in 0..MaxRow, c \in 0..MaxCol}
    \cup { Tool(NameAt(i), 0, 0, StubbySize[1], StubbySize[2]),
           Tool(NameAt(i), 0, 0, 0, RegularSize(i)[2]) }

AnyToolsAt(i) == GoodToolsAt(i) \cup BadToolsAt(i)

\* every csv content explored: up to MaxTools rows, well-formed or not
ToolLists ==
    UNION {ListsOver([i \in 1..MaxTools |-> AnyToolsAt(i)], n) : n \in 0..MaxTools}
\* non-empty lists of well-formed rows (duplicate cells included)
GoodToolLists ==
    UNION {ListsOver([i \in 1..MaxTools |-> GoodToolsAt(i)], n) : n \in 1..MaxTools}

----------------------------------------------------------------------------
(* Parameters (params.PARAM_DEFS), lengths in 0.1 mm, angle in degrees *)

DefaultParams ==
    [ handle_x_pad |-> 60, handle_y_pad |-> 60,
      edge_margin_x |-> 100, edge_margin_y |-> 100,
      min_web |-> 30, row_z_step |-> 80,
      base_thickness |-> 120, min_floor_thickness |-> 80,
      hole_buffer |-> 6, hole_chamfer_d |-> 20, hole_chamfer_depth |-> 15,
      text_y_dist |-> 40, text_height |-> 50, emboss_height |-> 8,
      font_name |-> "Arial",
      mount_hole_d |-> 52,
      mount_hole_edge_offset_x |-> 120, mount_hole_edge_offset_y |-> 120,
      mount_style |-> "counterbore",
      cbore_d |-> 95, cbore_depth |-> 30,
      csk_d |-> 100, csk_angle |-> 90 ]

\* user edits of the layout parameters
LayoutParams ==
    { [DefaultParams EXCEPT !.min_web = e[1], !.handle_x_pad = e[2], !.handle_y_pad = e[3]] :
        e \in {<<30, 60, 60>>, <<30, 0, 60>>, <<30, 60, 0>>, <<0, 60, 60>>, <<0, 0, 0>>} }

\* user edits of one mounting-hole offset: on the lower limit hole_radius + min_web
\* (26 + 30), and on the upper limit of a 44 mm wide or deep part (440 - 26 - 30)
MountOffsets == {56, 384}
MountParams ==
    { [DefaultParams EXCEPT !.mount_hole_edge_offset_x = o] : o \in MountOffsets }
    \cup { [DefaultParams EXCEPT !.mount_hole_edge_offset_y = o] : o \in MountOffsets }

\* base thinner than min_floor_thickness
ThinParams == { [DefaultParams EXCEPT !.base_thickness = 60] }

StyleParams ==
    { [DefaultParams EXCEPT !.mount_style = s] : s \in {"none", "countersink", "Countersink"} }

\* user edits that move the labels: a pad wide enough for the label to sit at its
\* default position, and no pad at all
LabelParams ==
    { [DefaultParams EXCEPT !.handle_y_pad = 160], [DefaultParams EXCEPT !.handle_y_pad = 0] }

\* user edits of the mounting plate: a narrow wing with no web, and a wide screw hole
WingParams ==
    { [DefaultParams EXCEPT !.min_web = 0, !.mount_hole_edge_offset_x = 40],
      [DefaultParams EXCEPT !.mount_hole_d = 140] }

ParamSets ==
    LayoutParams \cup MountParams \cup ThinParams \cup StyleParams
    \cup LabelParams \cup WingParams

\* the test scenario of tests/test_api_calls.py, and its first tool alone
ScenarioTools == <<Tool("T10", 0, 0, 180, 50), Tool("PH2", 1, 0, 220, 64)>>
ScenarioLists == {ScenarioTools, SubSeq(ScenarioTools, 1, 1)}

\* a precision driver: handle 2 mm, shaft 1 mm
TinyTools == <<Tool("T10", 0, 0, 20, 10)>>

\* csv files handed to the command
RunToolLists ==
    UNION {ListsOver([i \in 1..MaxTools |-> RunToolsAt(i)], n) : n \in 0..MaxTools}

\* <<tools, params>> of a run of the command: any csv under the shipped parameters
\* with plain mounting holes, the scenario under edited parameters, or the
\* precision driver under edited pads
RunInputs ==
    (RunToolLists \X {p \in StyleParams : p.mount_style = "none"})
    \cup (ScenarioLists \X ParamSets)
    \cup ({TinyTools} \X LabelParams)

\* <<tools, params>> the layout functions are applied to
LayoutInputs ==
    (GoodToolLists \X LayoutParams) \cup (ScenarioLists \X ParamSets)

----------------------------------------------------------------------------
(* validate.py: a validator returns NoError or the message of the ValueError *)

NoError == <<>>
NotRun == <<"not run">>

\* validate_tools with "< 0" for "<= 0" on the diameters
RECURSIVE validate_tools_loop_zero_ok(_, _, _)
validate_tools_loop_zero_ok(ts, i, seen) ==
    IF i > Len(ts) THEN NoError
    ELSE LET tool == ts[i]
             key == <<tool.row, tool.col>>
         IN  IF tool.name = "" THEN <<"Tool name must be non-empty.">>
             ELSE IF tool.row < 0 \/ tool.col < 0
                  THEN <<"Invalid row/col for tool", tool.name>>
             ELSE IF tool.handle_d_mm < 0 \/ tool.shaft_d_mm < 0
                  THEN <<"Invalid diameters for tool", tool.name>>
             ELSE IF key \in DOMAIN seen
                  THEN <<"Duplicate row/col for", tool.name, seen[key].name>>
             ELSE validate_tools_loop_zero_ok(ts, i + 1, Put(seen, key, tool))

RECURSIVE validate_tools_loop(_, _, _)
validate_tools_loop(ts, i, seen) ==
    IF i > Len(ts) THEN NoError
    ELSE LET tool == ts[i]
             key == <<tool.row, tool.col>>
         IN  IF tool.name = "" THEN <<"Tool name must be non-empty.">>
             ELSE IF tool.row < 0 \/ tool.col < 0
                  THEN <<"Invalid row/col for tool", tool.name>>
             ELSE IF tool.handle_d_mm <= 0 \/ tool.shaft_d_mm <= 0
                  THEN <<"Invalid diameters for tool", tool.name>>
             ELSE IF key \in DOMAIN seen
                  THEN <<"Duplicate row/col for", tool.name, seen[key].name>>
             ELSE validate_tools_loop(ts, i + 1, Put(seen, key, tool))

validate_tools(ts) ==
    IF ts = <<>> THEN <<"No enabled tools found in CSV.">>
    ELSE validate_tools_loop(ts, 1, EmptyDict)

validate_params(p) ==
    IF p.base_thickness < p.min_floor_thickness
    THEN <<"Base thickness must be >= min_floor_thickness.">>
    ELSE NoError

\* validate_mount_offsets with ">" for ">=" on the upper X limit
validate_mount_offsets_on_limit(p, part_width_mm, part_depth_mm) ==
    LET hole_radius == Half(p.mount_hole_d)
        min_web == p.min_web
        offset_x == p.mount_hole_edge_offset_x
        offset_y == p.mount_hole_edge_offset_y
    IN  IF offset_x <= hole_radius + min_web
        THEN <<"Mount hole X offset too small for edge clearance.">>
        ELSE IF offset_y <= hole_radius + min_web
        THEN <<"Mount hole Y offset too small for edge clearance.">>
        ELSE IF offset_x > part_width_mm - hole_radius - min_web
        THEN <<"Mount hole X offset places holes outside part.">>
        ELSE IF offset_y >= part_depth_mm - hole_radius - min_web
        THEN <<"Mount hole Y offset places holes outside part.">>
        ELSE NoError

validate_mount_offsets(p, part_width_mm, part_depth_mm) ==
    LET hole_radius == Half(p.mount_hole_d)
        min_web == p.min_web
        offset_x == p.mount_hole_edge_offset_x
        offset_y == p.mount_hole_edge_offset_y
    IN  IF offset_x <= hole_radius + min_web
        THEN <<"Mount hole X offset too small for edge clearance.">>
        ELSE IF offset_y <= hole_radius + min_web
        THEN <<"Mount hole Y offset too small for edge clearance.">>
        ELSE IF offset_x >= part_width_mm - hole_radius - min_web
        THEN <<"Mount hole X offset places holes outside part.">>
        ELSE IF offset_y >= part_depth_mm - hole_radius - min_web
        THEN <<"Mount hole Y offset places holes outside part.">>
        ELSE NoError

\* the inner loop body without its column check
spacing_pair_rows_only(tool_a, tool_b, centers, min_web) ==
    LET ca == centers[<<tool_a.row, tool_a.col>>]
        cb == centers[<<tool_b.row, tool_b.col>>]
        min_dist == Half(tool_a.shaft_d_mm + tool_b.shaft_d_mm) + min_web
    IN  IF tool_a.row = tool_b.row /\ Abs(ca[1] - cb[1]) < min_dist
        THEN <<"Hole spacing too tight between", tool_a.name, tool_b.name>>
        ELSE NoError

\* the body of the inner loop for the pair (tool_a, tool_b)
spacing_pair(tool_a, tool_b, centers, min_web) ==
    LET ca == centers[<<tool_a.row, tool_a.col>>]
        cb == centers[<<tool_b.row, tool_b.col>>]
        min_dist == Half(tool_a.shaft_d_mm + tool_b.shaft_d_mm) + min_web
    IN  IF tool_a.row = tool_b.row /\ Abs(ca[1] - cb[1]) < min_dist
        THEN <<"Hole spacing too tight between", tool_a.name, tool_b.name>>
        ELSE IF tool_a.col = tool_b.col /\ Abs(ca[2] - cb[2]) < min_dist
        THEN <<"Hole spacing too tight between", tool_a.name, tool_b.name>>
        ELSE NoError

\* for i, tool_a in enumerate(tools): for tool_b in tools[i + 1:]
RECURSIVE validate_spacing_loop(_, _, _, _, _)
validate_spacing_loop(ts, centers, min_web, i, j) ==
    IF i > Len(ts) THEN NoError
    ELSE IF j > Len(ts) THEN validate_spacing_loop(ts, centers, min_web, i + 1, i + 2)
    ELSE LET e == spacing_pair(ts[i], ts[j], centers, min_web)
         IN  IF e # NoError THEN e
             ELSE validate_spacing_loop(ts, centers, min_web, i, j + 1)

validate_spacing(ts, centers, p) ==
    validate_spacing_loop(ts, centers, p.min_web, 1, 2)

----------------------------------------------------------------------------
(* layout.py *)

NoLayout ==
    [ col_widths |-> EmptyDict, row_depths |-> EmptyDict, centers |-> EmptyDict,
      part_width_mm |-> 0, part_depth_mm |-> 0, max_row |-> -1, max_col |-> -1 ]

\* col_max[tool.col] = max(col_max.get(tool.col, 0.0), tool.handle_d_mm), over the tools
RECURSIVE col_max_of(_, _)
col_max_of(ts, n) ==
    IF n = 0 THEN EmptyDict
    ELSE LET d == col_max_of(ts, n - 1)
             tool == ts[n]
         IN  Put(d, tool.col, Max(Get(d, tool.col, 0), tool.handle_d_mm))

RECURSIVE row_max_of(_, _)
row_max_of(ts, n) ==
    IF n = 0 THEN EmptyDict
    ELSE LET d == row_max_of(ts, n - 1)
             tool == ts[n]
         IN  Put(d, tool.row, Max(Get(d, tool.row, 0), tool.handle_d_mm))

\* widths[k] = max(max_handle + pad, max_handle + min_web) for the occupied indices
cell_sizes(maxes, pad, min_web) ==
    [k \in DOMAIN maxes |-> Max(maxes[k] + pad, maxes[k] + min_web)]

\* setdefault(k, 0.0) for setdefault(k, min_web)
fill_gaps_zero(sizes, max_k, min_web) ==
    [k \in (DOMAIN sizes) \cup (0..max_k) |-> IF k \in DOMAIN sizes THEN sizes[k] ELSE 0]

\* for k in range(max_k + 1): sizes.setdefault(k, min_web)
fill_gaps(sizes, max_k, min_web) ==
    [k \in (DOMAIN sizes) \cup (0..max_k) |-> IF k \in DOMAIN sizes THEN sizes[k] ELSE min_web]

_prefix_sum(values, idx) == SumRange(values, idx)

\* centers[(tool.row, tool.col)] = (x_center, y_center), over the tools
RECURSIVE centers_of(_, _, _, _, _, _)
centers_of(ts, n, col_widths, row_depths, x0, y0) ==
    IF n = 0 THEN EmptyDict
    ELSE LET tool == ts[n]
             x_center == x0 + _prefix_sum(col_widths, tool.col) + Half(col_widths[tool.col])
             y_center == y0 + _prefix_sum(row_depths, tool.row) + Half(row_depths[tool.row])
         IN  Put(centers_of(ts, n - 1, col_widths, row_depths, x0, y0),
                 <<tool.row, tool.col>>, <<x_center, y_center>>)

\* part size computed over range(max_k): the last index left out
part_size_short(margin, sizes, max_k) == 2 * margin + SumRange(sizes, max_k)

\* 2 * params["edge_margin"] + sum(sizes[i] for i in range(max_k + 1))
part_size(margin, sizes, max_k) == 2 * margin + SumRange(sizes, max_k + 1)

\* defined for a non-empty tool list (max() of no keys raises)
compute_layout(ts, p) ==
    LET col_max == col_max_of(ts, Len(ts))
        row_max == row_max_of(ts, Len(ts))
        col_widths0 == cell_sizes(col_max, p.handle_x_pad, p.min_web)
        row_depths0 == cell_sizes(row_max, p.handle_y_pad, p.min_web)
        max_col == SetMax(DOMAIN col_widths0)
        max_row == SetMax(DOMAIN row_depths0)
        col_widths == fill_gaps(col_widths0, max_col, p.min_web)
        row_depths == fill_gaps(row_depths0, max_row, p.min_web)
    IN  [ col_widths |-> col_widths,
          row_depths |-> row_depths,
          centers |-> centers_of(ts, Len(ts), col_widths, row_depths,
                                 p.edge_margin_x, p.edge_margin_y),
          part_width_mm |-> part_size(p.edge_margin_x, col_widths, max_col),
          part_depth_mm |-> part_size(p.edge_margin_y, row_depths, max_row),
          max_row |-> max_row,
          max_col |-> max_col ]

----------------------------------------------------------------------------
(* The modeling backend, as the fakes of tests/test_api_calls.py record it: *)
(* every call is appended to the run's trace; a sketch holds one profile    *)
(* per rectangle, circle or text added to it (FakeSketch.add_profile).      *)

Ev(call, args) == [call |-> call, args |-> args]

GEN_NAME == "ScrewdriverHolder_GEN"

\* backend calls that create, change or delete model content
ModelingCalls ==
    { "occurrence.deleteMe", "occurrences.addNewComponent",
      "sketches.add", "constructionPlanes.add",
      "addTwoPointRectangle", "addByCenterRadius", "sketchTexts.add",
      "extrudeFeatures.addSimple", "extrudeFeatures.add", "chamferFeatures.add" }

\* calls that change the solid body (and so its edges)
BodyChangingCalls ==
    { "extrudeFeatures.addSimple", "extrudeFeatures.add", "chamferFeatures.add" }

ValidatorCalls ==
    { "validate_tools", "validate_params", "validate_spacing", "validate_mount_offsets" }

\* the concatenation of the first n sequences of seqs
RECURSIVE ConcatN(_, _)
ConcatN(seqs, n) == IF n = 0 THEN <<>> ELSE ConcatN(seqs, n - 1) \o seqs[n]
Concat(seqs) == ConcatN(seqs, Len(seqs))

\* 1e-5 cm per 0.1 mm: _mm_to_cm of a length, in the unit of the edge coordinates
FinePerUnit == 1000
mm_to_cm(value_mm) == value_mm * FinePerUnit

\* tol = 1e-4 (cm), in 1e-5 cm
Tol == 10

Edge(circle, x, y, z, radius) ==
    [circle |-> circle, x |-> x, y |-> y, z |-> z, radius |-> radius]

----------------------------------------------------------------------------
(* geometry.py *)

\* base_depth with the back margin added: the whole part depth
base_depth_to_back_edge(l, p) == l.part_depth_mm

\* the back of the occupied rows: the back margin is left out
base_depth_of(l, p) == p.edge_margin_y + SumRange(l.row_depths, l.max_row + 1)

_build_base(l, p) ==
    << Ev("sketches.add", <<"xY", 0>>),
       Ev("addTwoPointRectangle", <<0, 0, l.part_width_mm, base_depth_of(l, p)>>),
       Ev("extrudeFeatures.addSimple", <<"NewBody", p.base_thickness>>) >>

\* a tier sketched on the plane at base_thickness + row * row_z_step
build_step_one_higher(l, p, row) ==
    LET z_offset == p.base_thickness + row * p.row_z_step
        row_start == p.edge_margin_y + SumRange(l.row_depths, row)
        row_end == l.part_depth_mm - p.edge_margin_y
    IN  << Ev("constructionPlanes.add", <<"xY", z_offset>>),
           Ev("sketches.add", <<"xY", z_offset>>),
           Ev("addTwoPointRectangle", <<0, row_start, l.part_width_mm, row_end>>),
           Ev("extrudeFeatures.addSimple", <<"Join", p.row_z_step>>) >>

\* one iteration of "for row in range(1, layout.max_row + 1)"
build_step(l, p, row) ==
    LET z_offset == p.base_thickness + (row - 1) * p.row_z_step
        row_start == p.edge_margin_y + SumRange(l.row_depths, row)
        row_end == l.part_depth_mm - p.edge_margin_y
    IN  << Ev("constructionPlanes.add", <<"xY", z_offset>>),
           Ev("sketches.add", <<"xY", z_offset>>),
           Ev("addTwoPointRectangle", <<0, row_start, l.part_width_mm, row_end>>),
           Ev("extrudeFeatures.addSimple", <<"Join", p.row_z_step>>) >>

_build_steps(l, p) ==
    IF l.max_row < 1 THEN <<>>
    ELSE Concat([row \in 1..l.max_row |-> build_step(l, p, row)])

_cut_through_all == Ev("extrudeFeatures.add", <<"Cut", "ThroughAll", "Positive">>)

_create_tool_holes(ts, l, p) ==
    LET circle(i) ==
            LET center == l.centers[<<ts[i].row, ts[i].col>>]
                hole_d == ts[i].shaft_d_mm + p.hole_buffer
            IN  Ev("addByCenterRadius", <<center[1], center[2], Half(hole_d)>>)
    IN  <<Ev("sketches.add", <<"xY", 0>>)>>
        \o [i \in 1..Len(ts) |-> circle(i)]
        \o [i \in 1..Len(ts) |-> _cut_through_all]

\* keys of a dict filled from the tools in order: first insertion fixes the position
RECURSIVE keys_in_order(_, _)
keys_in_order(ks, n) ==
    IF n = 0 THEN <<>>
    ELSE LET before == keys_in_order(ks, n - 1)
         IN  IF \E j \in 1..Len(before) : before[j] = ks[n]
             THEN before
             ELSE Append(before, ks[n])

cell_of(tool) == <<tool.row, tool.col>>
cells_of(ts) == [i \in 1..Len(ts) |-> cell_of(ts[i])]
rows_of(ts) == [i \in 1..Len(ts) |-> ts[i].row]

\* the inner loop of _collect_hole_edges: the first key of centers that the edge matches
RECURSIVE first_matching_key(_, _, _, _, _)
first_matching_key(edge, keys, centers, row_zs, k) ==
    IF k > Len(keys) THEN <<>>
    ELSE LET key == keys[k]
             x_mm == centers[key][1]
             y_mm == centers[key][2]
             z_mm == row_zs[key[1]]
         IN  IF /\ Abs(edge.x - mm_to_cm(x_mm)) < Tol
                /\ Abs(edge.y - mm_to_cm(y_mm)) < Tol
                /\ Abs(edge.z - mm_to_cm(z_mm)) < Tol
             THEN <<key>>
             ELSE first_matching_key(edge, keys, centers, row_zs, k + 1)

\* edges[key] = index in body.edges of the edge stored for key, after the first n edges
RECURSIVE _collect_hole_edges(_, _, _, _, _)
_collect_hole_edges(body_edges, keys, centers, row_zs, n) ==
    IF n = 0 THEN EmptyDict
    ELSE LET found == _collect_hole_edges(body_edges, keys, centers, row_zs, n - 1)
             edge == body_edges[n]
             hit == IF edge.circle
                    THEN first_matching_key(edge, keys, centers, row_zs, 1)
                    ELSE <<>>
         IN  IF hit = <<>> THEN found ELSE Put(found, hit[1], n)

\* _chamfer_holes with "break" for "continue": the loop ends at the first missing edge
_chamfer_holes_break(ts, l, p, body_edges) ==
    LET row_zs == [row \in 0..l.max_row |-> p.base_thickness + row * p.row_z_step]
        edge_map == _collect_hole_edges(body_edges, keys_in_order(cells_of(ts), Len(ts)),
                                        l.centers, row_zs, Len(body_edges))
        found(i) == cell_of(ts[i]) \in DOMAIN edge_map
        reached(i) == \A j \in 1..(i - 1) : found(j)
        step(i) ==
            IF reached(i) /\ found(i)
            THEN <<Ev("chamferFeatures.add",
                      <<"TwoDistances", edge_map[cell_of(ts[i])], "hole", i>>)>>
            ELSE <<>>
        warn(i) ==
            IF reached(i) /\ ~found(i)
            THEN <<(<<"Could not find chamfer edge for", ts[i].name>>)>>
            ELSE <<>>
    IN  [ trace |-> <<Ev("body.edges", <<"hole">>)>> \o Concat([i \in 1..Len(ts) |-> step(i)]),
          warnings |-> Concat([i \in 1..Len(ts) |-> warn(i)]) ]

\* [trace, warnings] of _chamfer_holes, body_edges being what body.edges yields
_chamfer_holes(ts, l, p, body_edges) ==
    LET row_zs == [row \in 0..l.max_row |-> p.base_thickness + row * p.row_z_step]
        edge_map == _collect_hole_edges(body_edges, keys_in_order(cells_of(ts), Len(ts)),
                                        l.centers, row_zs, Len(body_edges))
        found(i) == cell_of(ts[i]) \in DOMAIN edge_map
        step(i) ==
            IF found(i)
            THEN <<Ev("chamferFeatures.add",
                      <<"TwoDistances", edge_map[cell_of(ts[i])], "hole", i>>)>>
            ELSE <<>>
        warn(i) ==
            IF found(i) THEN <<>>
            ELSE <<(<<"Could not find chamfer edge for", ts[i].name>>)>>
    IN  [ trace |-> <<Ev("body.edges", <<"hole">>)>> \o Concat([i \in 1..Len(ts) |-> step(i)]),
          warnings |-> Concat([i \in 1..Len(ts) |-> warn(i)]) ]

\* indices of the tools of a row, in list order (tools_by_row[row])
row_tools(ts, row) == SelectSeq([i \in 1..Len(ts) |-> i], LAMBDA i : ts[i].row = row)

\* y of the label of tool and the clamp warnings it appends
text_y(tool, l, p, row_start, row_end) ==
    LET y_center == l.centers[cell_of(tool)][2]
        y0 == y_center - (Half(tool.handle_d_mm) + p.text_y_dist)
        low == y0 < row_start + p.min_web
        y1 == IF low THEN row_start + p.min_web ELSE y0
        high == y1 > row_end - p.min_web
        y2 == IF high THEN row_end - p.min_web ELSE y1
        w == <<"Text for", tool.name, "clamped to row boundary.">>
    IN  [ y |-> y2,
          warnings |-> (IF low THEN <<w>> ELSE <<>>) \o (IF high THEN <<w>> ELSE <<>>) ]

\* one iteration of "for row, row_tools in tools_by_row.items()"
label_row(ts, l, p, font_name, row) ==
    LET z_offset == p.base_thickness + row * p.row_z_step
        row_start == p.edge_margin_y + SumRange(l.row_depths, row)
        row_end == row_start + l.row_depths[row]
        idx == row_tools(ts, row)
        ty(k) == text_y(ts[idx[k]], l, p, row_start, row_end)
        text(k) == Ev("sketchTexts.add",
                      <<ts[idx[k]].name, l.centers[cell_of(ts[idx[k]])][1], ty(k).y,
                        font_name, p.text_height>>)
    IN  [ trace |-> << Ev("constructionPlanes.add", <<"xY", z_offset>>),
                       Ev("sketches.add", <<"xY", z_offset>>) >>
                    \o [k \in 1..Len(idx) |-> text(k)]
                    \o [k \in 1..Len(idx) |->
                          Ev("extrudeFeatures.addSimple", <<"Join", p.emboss_height, "text">>)],
          warnings |-> Concat([k \in 1..Len(idx) |-> ty(k).warnings]) ]

_add_text_labels(ts, l, p, font_name) ==
    LET rows == keys_in_order(rows_of(ts), Len(ts))
        per_row == [k \in 1..Len(rows) |-> label_row(ts, l, p, font_name, rows[k])]
    IN  [ trace |-> Concat([k \in 1..Len(rows) |-> per_row[k].trace]),
          warnings |-> Concat([k \in 1..Len(rows) |-> per_row[k].warnings]) ]

\* str.lower() on the spellings of mount_style that occur
Lower(str) ==
    CASE str = "None" -> "none"
      [] str = "Countersink" -> "countersink"
      [] str = "Counterbore" -> "counterbore"
      [] OTHER -> str

\* <<x, z>> of the four mounting holes in sketch coordinates (sketch y is -world z)
hole_positions(l, p) ==
    LET wing_extension == p.mount_hole_edge_offset_x
        wing_z_height == (p.base_thickness + l.max_row * p.row_z_step) + p.base_thickness
        hole_x_left == 0 - Half(wing_extension)
        hole_x_right == l.part_width_mm + Half(wing_extension)
        hole_z_bottom == 0 - Half(p.base_thickness)
        hole_z_top == 0 - (wing_z_height - Half(p.base_thickness))
    IN  << <<hole_x_left, hole_z_bottom>>, <<hole_x_right, hole_z_bottom>>,
           <<hole_x_left, hole_z_top>>, <<hole_x_right, hole_z_top>> >>

\* the countersink loop: the indices of body.edges that are chamfered, in order
csk_matches(body_edges, back_y, hole_d) ==
    SelectSeq([n \in 1..Len(body_edges) |-> n],
              LAMBDA n : /\ body_edges[n].circle
                         /\ ~(Abs(body_edges[n].y - back_y) > Tol)
                         /\ ~(Abs(body_edges[n].radius - mm_to_cm(Half(hole_d))) > Tol))

\* _create_mount_holes with the "none" return placed before the through cuts
_create_mount_holes_none_first(l, p, mount_style, csk_angle_deg, body_edges) ==
    LET hole_d == p.mount_hole_d
        wing_extension == p.mount_hole_edge_offset_x
        wing_thickness == p.mount_hole_edge_offset_y
        base_depth == base_depth_of(l, p)
        top_tier_z == p.base_thickness + l.max_row * p.row_z_step
        wing_z_height == top_tier_z + p.base_thickness
        pos == hole_positions(l, p)
        style == Lower(mount_style)
        plate ==
            << Ev("constructionPlanes.add", <<"xZ", base_depth>>),
               Ev("sketches.add", <<"xZ", base_depth>>),
               Ev("addTwoPointRectangle",
                  <<0 - wing_extension, 0 - wing_z_height, l.part_width_mm + wing_extension, 0>>),
               Ev("extrudeFeatures.addSimple", <<"Join", wing_thickness>>) >>
        holes ==
            << Ev("constructionPlanes.add", <<"xZ", base_depth + wing_thickness>>),
               Ev("sketches.add", <<"xZ", base_depth + wing_thickness>>) >>
            \o [k \in 1..4 |-> Ev("addByCenterRadius", <<pos[k][1], pos[k][2], Half(hole_d)>>)]
            \o [k \in 1..4 |-> Ev("extrudeFeatures.add", <<"Cut", "ThroughAll", "Negative">>)]
        counterbore ==
            <<Ev("sketches.add", <<"xZ", base_depth + wing_thickness>>)>>
            \o [k \in 1..4 |-> Ev("addByCenterRadius", <<pos[k][1], pos[k][2], p.cbore_d, "d">>)]
            \o [k \in 1..4 |->
                  Ev("extrudeFeatures.add", <<"Cut", "Distance", "Negative", p.cbore_depth>>)]
        hits == csk_matches(body_edges, mm_to_cm(base_depth + wing_thickness), hole_d)
        countersink ==
            <<Ev("body.edges", <<"mount">>)>>
            \o [k \in 1..Len(hits) |->
                  Ev("chamferFeatures.add",
                     <<"DistanceAndAngle", hits[k], "mount", Half(p.csk_d - hole_d),
                       csk_angle_deg>>)]
    IN  plate
        \o (IF style = "none" THEN <<>> ELSE holes)
        \o (IF style = "counterbore" THEN counterbore ELSE <<>>)
        \o (IF style = "countersink" THEN countersink ELSE <<>>)

\* trace of _create_mount_holes (it returns nothing), body_edges being what body.edges yields
_create_mount_holes(l, p, mount_style, csk_angle_deg, body_edges) ==
    LET hole_d == p.mount_hole_d
        wing_extension == p.mount_hole_edge_offset_x
        wing_thickness == p.mount_hole_edge_offset_y
        base_depth == base_depth_of(l, p)
        top_tier_z == p.base_thickness + l.max_row * p.row_z_step
        wing_z_height == top_tier_z + p.base_thickness
        pos == hole_positions(l, p)
        style == Lower(mount_style)
        plate ==
            << Ev("constructionPlanes.add", <<"xZ", base_depth>>),
               Ev("sketches.add", <<"xZ", base_depth>>),
               Ev("addTwoPointRectangle",
                  <<0 - wing_extension, 0 - wing_z_height, l.part_width_mm + wing_extension, 0>>),
               Ev("extrudeFeatures.addSimple", <<"Join", wing_thickness>>) >>
        holes ==
            << Ev("constructionPlanes.add", <<"xZ", base_depth + wing_thickness>>),
               Ev("sketches.add", <<"xZ", base_depth + wing_thickness>>) >>
            \o [k \in 1..4 |-> Ev("addByCenterRadius", <<pos[k][1], pos[k][2], Half(hole_d)>>)]
            \o [k \in 1..4 |-> Ev("extrudeFeatures.add", <<"Cut", "ThroughAll", "Negative">>)]
        counterbore ==
            <<Ev("sketches.add", <<"xZ", base_depth + wing_thickness>>)>>
            \o [k \in 1..4 |-> Ev("addByCenterRadius", <<pos[k][1], pos[k][2], p.cbore_d, "d">>)]
            \o [k \in 1..4 |->
                  Ev("extrudeFeatures.add", <<"Cut", "Distance", "Negative", p.cbore_depth>>)]
        hits == csk_matches(body_edges, mm_to_cm(base_depth + wing_thickness), hole_d)
        countersink ==
            <<Ev("body.edges", <<"mount">>)>>
            \o [k \in 1..Len(hits) |->
                  Ev("chamferFeatures.add",
                     <<"DistanceAndAngle", hits[k], "mount", Half(p.csk_d - hole_d),
                       csk_angle_deg>>)]
    IN  plate \o holes
        \o (IF style = "counterbore" THEN counterbore ELSE <<>>)
        \o (IF style = "countersink" THEN countersink ELSE <<>>)

----------------------------------------------------------------------------
(* The design document: the bodies of the root component and its occurrences *)

Occurrence(name, bodies) == [name |-> name, bodies |-> bodies]
Doc(bodies, occurrences) == [bodies |-> bodies, occurrences |-> occurrences]

\* an empty part document, one that holds a body, one that holds an occurrence
InitialDocs ==
    { Doc(<<>>, <<>>),
      Doc(<<"user">>, <<>>),
      Doc(<<>>, <<Occurrence("Bracket", <<"user">>)>>) }

\* build_holder with _add_text_labels called before _chamfer_holes
build_holder_labels_first(d, ts, l, p, hole_edges, mount_edges) ==
    LET is_single_component_doc == Len(d.occurrences) = 0 /\ Len(d.bodies) = 0
        is_gen(occ) == occ.name = GEN_NAME
        not_gen(occ) == occ.name # GEN_NAME
        deleted == SelectSeq(d.occurrences, is_gen)
        kept == SelectSeq(d.occurrences, not_gen)
        comp_trace ==
            IF is_single_component_doc THEN <<>>
            ELSE [k \in 1..Len(deleted) |-> Ev("occurrence.deleteMe", <<deleted[k].name>>)]
                 \o <<Ev("occurrences.addNewComponent", <<GEN_NAME>>)>>
        chamfer == _chamfer_holes(ts, l, p, hole_edges)
        text == _add_text_labels(ts, l, p, p.font_name)
    IN  [ doc |-> IF is_single_component_doc
                  THEN Doc(Append(d.bodies, "holder"), d.occurrences)
                  ELSE Doc(d.bodies, Append(kept, Occurrence(GEN_NAME, <<"holder">>))),
          trace |-> comp_trace
                    \o _build_base(l, p)
                    \o _build_steps(l, p)
                    \o _create_tool_holes(ts, l, p)
                    \o text.trace
                    \o chamfer.trace
                    \o _create_mount_holes(l, p, p.mount_style, p.csk_angle, mount_edges),
          warnings |-> chamfer.warnings \o text.warnings ]

\* [doc, trace, warnings] of build_holder on document d; hole_edges and mount_edges
\* are what body.edges yields in _chamfer_holes and in _create_mount_holes
build_holder(d, ts, l, p, hole_edges, mount_edges) ==
    LET is_single_component_doc == Len(d.occurrences) = 0 /\ Len(d.bodies) = 0
        is_gen(occ) == occ.name = GEN_NAME
        not_gen(occ) == occ.name # GEN_NAME
        deleted == SelectSeq(d.occurrences, is_gen)
        kept == SelectSeq(d.occurrences, not_gen)
        comp_trace ==
            IF is_single_component_doc THEN <<>>
            ELSE [k \in 1..Len(deleted) |-> Ev("occurrence.deleteMe", <<deleted[k].name>>)]
                 \o <<Ev("occurrences.addNewComponent", <<GEN_NAME>>)>>
        chamfer == _chamfer_holes(ts, l, p, hole_edges)
        text == _add_text_labels(ts, l, p, p.font_name)
    IN  [ doc |-> IF is_single_component_doc
                  THEN Doc(Append(d.bodies, "holder"), d.occurrences)
                  ELSE Doc(d.bodies, Append(kept, Occurrence(GEN_NAME, <<"holder">>))),
          trace |-> comp_trace
                    \o _build_base(l, p)
                    \o _build_steps(l, p)
                    \o _create_tool_holes(ts, l, p)
                    \o chamfer.trace
                    \o text.trace
                    \o _create_mount_holes(l, p, p.mount_style, p.csk_angle, mount_edges),
          warnings |-> chamfer.warnings \o text.warnings ]

----------------------------------------------------------------------------
(* What the backend's body.edges enumerations yield.  The position of a hole  *)
(* edge is the backend's: each expected circle is either where the plan puts  *)
(* it or off it by the tolerance, and the top circle of a bore may come as two *)
(* circular edges within the tolerance of each other.                         *)

HoleEdgeOutcomes == {"found", "off"}
HoleEdgeOutcomesTwice == HoleEdgeOutcomes \cup {"twice"}

\* edges of the body after the tool-hole cuts: a straight edge, then per tool the
\* bottom and the top circle of its bore (tests/test_api_calls.py builds the top ones)
hole_body_edges(ts, l, p, outcome) ==
    LET x(i) == mm_to_cm(l.centers[cell_of(ts[i])][1])
        y(i) == mm_to_cm(l.centers[cell_of(ts[i])][2])
        z(i) == mm_to_cm(p.base_thickness + ts[i].row * p.row_z_step)
        r(i) == mm_to_cm(Half(ts[i].shaft_d_mm + p.hole_buffer))
        dev(i) == IF outcome[i] = "off" THEN Tol ELSE 0
        pair(i) == << Edge(TRUE, x(i), y(i), 0, r(i)),
                      Edge(TRUE, x(i), y(i), z(i) + dev(i), r(i)) >>
                   \o (IF outcome[i] = "twice"
                       THEN <<Edge(TRUE, x(i), y(i), z(i) + (Tol \div 2), r(i))>>
                       ELSE <<>>)
    IN  <<Edge(FALSE, 0, 0, 0, 0)>> \o Concat([i \in 1..Len(ts) |-> pair(i)])

\* which of the four mounting holes have their back-face edge where the plan puts it
MountFoundSets == { {}, {1}, {2, 3}, {1, 2, 3, 4} }

\* edges of the body after the mounting-hole cuts: per hole the circle on the
\* plate's front face and the one on its back face
mount_body_edges(l, p, found) ==
    LET pos == hole_positions(l, p)
        front_y == mm_to_cm(base_depth_of(l, p))
        back_y == mm_to_cm(base_depth_of(l, p) + p.mount_hole_edge_offset_y)
        r == mm_to_cm(Half(p.mount_hole_d))
        dev(k) == IF k \in found THEN 0 ELSE Tol + 1
        pair(k) == << Edge(TRUE, mm_to_cm(pos[k][1]), front_y, mm_to_cm(0 - pos[k][2]), r),
                      Edge(TRUE, mm_to_cm(pos[k][1]), back_y + dev(k),
                           mm_to_cm(0 - pos[k][2]), r) >>
    IN  <<Edge(FALSE, 0, 0, 0, 0)>> \o Concat([k \in 1..4 |-> pair(k)])

NoEdges == [hole |-> <<>>, mount |-> <<>>]

----------------------------------------------------------------------------
(* ScrewdriverHolderGenerator.py: GenerateCommandExecuteHandler.notify *)

ChecksNotRun ==
    [ validate_tools |-> NotRun, validate_params |-> NotRun,
      validate_spacing |-> NotRun, validate_mount_offsets |-> NotRun ]

Passed(call) == Ev(call, <<"returned">>)
Raised(call) == Ev(call, <<"raised">>)

Result(message, d, l, c, t, w, e) ==
    [ message |-> message, doc |-> d, layout |-> l, checks |-> c,
      trace |-> t, warnings |-> w, edges |-> e ]

\* the run of the handler on document d once the csv (ts) is read and the user
\* parameters (p) are ensured; hole_outcome and mount_found fix what body.edges yields
Gate(passed, l, c, t) == [passed |-> passed, layout |-> l, checks |-> c, trace |-> t]

\* lines 50-59 of the handler: the validators and compute_layout, in the order called;
\* the first ValueError ends the run
gate(ts, p) ==
    LET vt == validate_tools(ts)
        c1 == [ChecksNotRun EXCEPT !.validate_tools = vt]
        t1 == <<Passed("validate_tools")>>
    IN  IF vt # NoError THEN Gate(FALSE, NoLayout, c1, <<Raised("validate_tools")>>)
        ELSE
    LET vp == validate_params(p)
        c2 == [c1 EXCEPT !.validate_params = vp]
        t2 == t1 \o <<Passed("validate_params")>>
    IN  IF vp # NoError THEN Gate(FALSE, NoLayout, c2, t1 \o <<Raised("validate_params")>>)
        ELSE
    LET l == compute_layout(ts, p)
        vs == validate_spacing(ts, l.centers, p)
        c3 == [c2 EXCEPT !.validate_spacing = vs]
        t3 == t2 \o <<Passed("validate_spacing")>>
    IN  IF vs # NoError THEN Gate(FALSE, l, c3, t2 \o <<Raised("validate_spacing")>>)
        ELSE
    LET vm == validate_mount_offsets(p, l.part_width_mm, l.part_depth_mm)
        c4 == [c3 EXCEPT !.validate_mount_offsets = vm]
        t4 == t3 \o <<Passed("validate_mount_offsets")>>
    IN  IF vm # NoError THEN Gate(FALSE, l, c4, t3 \o <<Raised("validate_mount_offsets")>>)
        ELSE Gate(TRUE, l, c4, t4)

\* the handler with build_holder called before validate_mount_offsets
notify_builds_early(d, ts, p, hole_outcome, mount_found) ==
    LET g == gate(ts, p)
        l == g.layout
        e == [ hole |-> hole_body_edges(ts, l, p, hole_outcome),
               mount |-> IF Lower(p.mount_style) = "countersink"
                         THEN mount_body_edges(l, p, mount_found) ELSE <<>> ]
        b == build_holder(d, ts, l, p, e.hole, e.mount)
        t3 == SubSeq(g.trace, 1, 3)
    IN  IF g.checks.validate_spacing # NoError
        THEN Result("failed", d, g.layout, g.checks, g.trace, <<>>, NoEdges)
        ELSE IF ~g.passed
        THEN Result("failed", b.doc, l, g.checks, t3 \o b.trace \o SubSeq(g.trace, 4, 4),
                    b.warnings, e)
        ELSE Result("summary", b.doc, l, g.checks, t3 \o b.trace \o SubSeq(g.trace, 4, 4),
                    b.warnings, e)

\* the run of the handler on document d once the csv (ts) is read and the user
\* parameters (p) are ensured; hole_outcome and mount_found fix what body.edges yields
notify(d, ts, p, hole_outcome, mount_found) ==
    LET g == gate(ts, p)
        l == g.layout
        e == [ hole |-> hole_body_edges(ts, l, p, hole_outcome),
               mount |-> IF Lower(p.mount_style) = "countersink"
                         THEN mount_body_edges(l, p, mount_found) ELSE <<>> ]
        b == build_holder(d, ts, l, p, e.hole, e.mount)
    IN  IF ~g.passed
        THEN Result("failed", d, g.layout, g.checks, g.trace, <<>>, NoEdges)
        ELSE Result("summary", b.doc, l, g.checks, g.trace \o b.trace, b.warnings, e)

----------------------------------------------------------------------------
(* The add-in in a session: the command runs, shows its message box, returns *)

Init ==
    /\ pc = "idle"
    /\ doc \in InitialDocs
    /\ tools = <<>>
    /\ params = DefaultParams
    /\ layout = NoLayout
    /\ checks = ChecksNotRun
    /\ trace = <<>>
    /\ warnings = <<>>
    /\ edges = NoEdges

\* the body.edges outcomes that matter to a run: none when the gate stops it
HoleOutcomesFor(ts, p, g) ==
    IF ~g.passed THEN {<<>>}
    ELSE IF ts \in ScenarioLists THEN [1..Len(ts) -> HoleEdgeOutcomesTwice]
    ELSE [1..Len(ts) -> HoleEdgeOutcomes]
MountFoundFor(p, g) ==
    IF g.passed /\ Lower(p.mount_style) = "countersink" THEN MountFoundSets ELSE {{}}

\* the command executes: csv chosen, parameters read, gate, build, message box
Notify ==
    /\ pc = "idle"
    /\ \E in \in RunInputs :
         \E g \in {gate(in[1], in[2])} :
         \E hole_outcome \in HoleOutcomesFor(in[1], in[2], g),
            mount_found \in MountFoundFor(in[2], g) :
         \E r \in {notify(doc, in[1], in[2], hole_outcome, mount_found)} :
                /\ pc' = r.message
                /\ doc' = r.doc
                /\ tools' = in[1]
                /\ params' = in[2]
                /\ layout' = r.layout
                /\ checks' = r.checks
                /\ trace' = r.trace
                /\ warnings' = r.warnings
                /\ edges' = r.edges

\* the message box is dismissed and the handler returns; the document stays
Return ==
    /\ pc \in {"summary", "failed"}
    /\ pc' = "idle"
    /\ tools' = <<>>
    /\ params' = DefaultParams
    /\ layout' = NoLayout
    /\ checks' = ChecksNotRun
    /\ trace' = <<>>
    /\ warnings' = <<>>
    /\ edges' = NoEdges
    /\ UNCHANGED doc

Next == Notify \/ Return

Spec == Init /\ [][Next]_vars

----------------------------------------------------------------------------
(* The validators and the layout applied as functions to any input *)

InitFn ==
    /\ pc = "fn"
    /\ doc = Doc(<<>>, <<>>)
    /\ tools = <<>>
    /\ params = DefaultParams
    /\ layout = NoLayout
    /\ checks = ChecksNotRun
    /\ trace = <<>>
    /\ warnings = <<>>
    /\ edges = NoEdges

FnValidateTools ==
    /\ pc = "fn"
    /\ \E ts \in ToolLists :
         /\ tools' = ts
         /\ checks' = [checks EXCEPT !.validate_tools = validate_tools(ts)]
    /\ pc' = "validated"
    /\ UNCHANGED <<doc, params, layout, trace, warnings, edges>>

FnValidateParams ==
    /\ pc = "fn"
    /\ \E p \in ParamSets :
         /\ params' = p
         /\ checks' = [checks EXCEPT !.validate_params = validate_params(p)]
    /\ pc' = "validated"
    /\ UNCHANGED <<doc, tools, layout, trace, warnings, edges>>

FnComputeLayout ==
    /\ pc = "fn"
    /\ \E in \in LayoutInputs :
         /\ tools' = in[1]
         /\ params' = in[2]
         /\ layout' = compute_layout(in[1], in[2])
    /\ pc' = "laid"
    /\ UNCHANGED <<doc, checks, trace, warnings, edges>>

FnValidateSpacing ==
    /\ pc = "laid"
    /\ checks' = [checks EXCEPT !.validate_spacing = validate_spacing(tools, layout.centers, params)]
    /\ pc' = "spaced"
    /\ UNCHANGED <<doc, tools, params, layout, trace, warnings, edges>>

FnValidateMountOffsets ==
    /\ pc = "spaced"
    /\ checks' = [checks EXCEPT !.validate_mount_offsets =
                    validate_mount_offsets(params, layout.part_width_mm, layout.part_depth_mm)]
    /\ pc' = "validated"
    /\ UNCHANGED <<doc, tools, params, layout, trace, warnings, edges>>

NextFn ==
    \/ FnValidateTools
    \/ FnValidateParams
    \/ FnComputeLayout
    \/ FnValidateSpacing
    \/ FnValidateMountOffsets

SpecFn == InitFn /\ [][NextFn]_vars

----------------------------------------------------------------------------
(* Python floats (IEEE 754 binary64, round to nearest, ties to even) as layout.py
   and validate.py compute with them. A float that is zero or lies between 1 and
   1024 is a whole number of units of 2^-53; it is held exactly as four 16-bit
   limbs, least significant first. *)

Limb == 65536
F64Zero == <<0, 0, 0, 0>>

\* exact sum, and exact difference a - b for a >= b, of two limb numbers
BigAdd(a, b) ==
    LET s1 == a[1] + b[1]
        s2 == a[2] + b[2] + (s1 \div Limb)
        s3 == a[3] + b[3] + (s2 \div Limb)
        s4 == a[4] + b[4] + (s3 \div Limb)
    IN  <<s1 % Limb, s2 % Limb, s3 % Limb, s4>>

BigSub(a, b) ==
    LET d1 == a[1] - b[1]
        d2 == a[2] - b[2] - (IF d1 < 0 THEN 1 ELSE 0)
        d3 == a[3] - b[3] - (IF d2 < 0 THEN 1 ELSE 0)
        d4 == a[4] - b[4] - (IF d3 < 0 THEN 1 ELSE 0)
    IN  <<d1 % Limb, d2 % Limb, d3 % Limb, d4>>

BigLess(a, b) ==
    \/ a[4] < b[4]
    \/ a[4] = b[4] /\ a[3] < b[3]
    \/ a[4] = b[4] /\ a[3] = b[3] /\ a[2] < b[2]
    \/ a[4] = b[4] /\ a[3] = b[3] /\ a[2] = b[2] /\ a[1] < b[1]

\* number of binary digits of x
BitLen(x) == CHOOSE k \in 0..31 : x < 2 ^ k /\ (k = 0 \/ x >= 2 ^ (k - 1))

\* the float nearest to v + (a fraction of a unit, present when sticky): 53
\* significant bits are kept, a tie goes to the even neighbour
round_to_f64(v, sticky) ==
    LET k == IF v[4] < 32 THEN 0 ELSE BitLen(v[4]) - 5
        q == 2 ^ k
        rem == v[1] % q
        half == q \div 2
        down == <<v[1] - rem, v[2], v[3], v[4]>>
        up == BigAdd(down, <<q, 0, 0, 0>>)
        odd == (v[1] \div q) % 2 = 1
    IN  IF k = 0 THEN v
        ELSE IF rem > half \/ (rem = half /\ sticky) THEN up
        ELSE IF rem < half THEN down
        ELSE IF odd THEN up ELSE down

\* float("n/10") for a decimal with one digit after the point: n * 2^53 units
\* divided by 10, limb by limb from the top, then rounded
float_of_tenths(n) ==
    LET c4 == 32 * n
        c3 == (c4 % 10) * Limb
        c2 == (c3 % 10) * Limb
        c1 == (c2 % 10) * Limb
    IN  round_to_f64(<<c1 \div 10, c2 \div 10, c3 \div 10, c4 \div 10>>, c1 % 10 # 0)

\* a + b, abs(a - b), a / 2, max(a, b), a < b on floats
f64_add(a, b) == round_to_f64(BigAdd(a, b), FALSE)
f64_abs_diff(a, b) ==
    round_to_f64(IF BigLess(a, b) THEN BigSub(b, a) ELSE BigSub(a, b), FALSE)
f64_half(a) ==
    << (a[1] \div 2) + (a[2] % 2) * (Limb \div 2),
       (a[2] \div 2) + (a[3] % 2) * (Limb \div 2),
       (a[3] \div 2) + (a[4] % 2) * (Limb \div 2),
       a[4] \div 2 >>
f64_max(a, b) == IF BigLess(a, b) THEN b ELSE a
f64_less(a, b) == BigLess(a, b)

\* sum(values[i] for i in range(n)): the terms are added from the left, starting
\* from 0 (for at most two terms the compensated sum() of Python 3.12 gives the same)
RECURSIVE f64_prefix_sum(_, _)
f64_prefix_sum(values, n) ==
    IF n <= 0 THEN F64Zero ELSE f64_add(f64_prefix_sum(values, n - 1), values[n - 1])

\* compute_layout on floats: the tools' diameters are the floats read from the csv,
\* the parameters are whole millimetres
f64_cell_sizes(maxes, pad, min_web) ==
    [k \in DOMAIN maxes |->
        LET max_handle == float_of_tenths(maxes[k])
        IN  f64_max(f64_add(max_handle, float_of_tenths(pad)),
                    f64_add(max_handle, float_of_tenths(min_web)))]

f64_fill_gaps(sizes, max_k, min_web) ==
    [k \in (DOMAIN sizes) \cup (0..max_k) |->
        IF k \in DOMAIN sizes THEN sizes[k] ELSE float_of_tenths(min_web)]

RECURSIVE f64_centers_of(_, _, _, _, _, _)
f64_centers_of(ts, n, col_widths, row_depths, x0, y0) ==
    IF n = 0 THEN EmptyDict
    ELSE LET tool == ts[n]
             x_center == f64_add(f64_add(x0, f64_prefix_sum(col_widths, tool.col)),
                                 f64_half(col_widths[tool.col]))
             y_center == f64_add(f64_add(y0, f64_prefix_sum(row_depths, tool.row)),
                                 f64_half(row_depths[tool.row]))
         IN  Put(f64_centers_of(ts, n - 1, col_widths, row_depths, x0, y0),
                 <<tool.row, tool.col>>, <<x_center, y_center>>)

\* the col_widths, row_depths and centers of compute_layout
f64_compute_layout(ts, p) ==
    LET col_widths0 == f64_cell_sizes(col_max_of(ts, Len(ts)), p.handle_x_pad, p.min_web)
        row_depths0 == f64_cell_sizes(row_max_of(ts, Len(ts)), p.handle_y_pad, p.min_web)
        max_col == SetMax(DOMAIN col_widths0)
        max_row == SetMax(DOMAIN row_depths0)
        col_widths == f64_fill_gaps(col_widths0, max_col, p.min_web)
        row_depths == f64_fill_gaps(row_depths0, max_row, p.min_web)
    IN  [ col_widths |-> col_widths,
          row_depths |-> row_depths,
          centers |-> f64_centers_of(ts, Len(ts), col_widths, row_depths,
                                     float_of_tenths(p.edge_margin_x),
                                     float_of_tenths(p.edge_margin_y)),
          max_row |-> max_row,
          max_col |-> max_col ]

\* the body of the inner loop of validate_spacing for the pair (tool_a, tool_b)
f64_spacing_pair(tool_a, tool_b, centers, min_web) ==
    LET ca == centers[<<tool_a.row, tool_a.col>>]
        cb == centers[<<tool_b.row, tool_b.col>>]
        min_dist == f64_add(f64_half(f64_add(float_of_tenths(tool_a.shaft_d_mm),
                                             float_of_tenths(tool_b.shaft_d_mm))),
                            float_of_tenths(min_web))
    IN  IF tool_a.row = tool_b.row /\ f64_less(f64_abs_diff(ca[1], cb[1]), min_dist)
        THEN <<"Hole spacing too tight between", tool_a.name, tool_b.name>>
        ELSE IF tool_a.col = tool_b.col /\ f64_less(f64_abs_diff(ca[2], cb[2]), min_dist)
        THEN <<"Hole spacing too tight between", tool_a.name, tool_b.name>>
        ELSE NoError

RECURSIVE f64_validate_spacing_loop(_, _, _, _, _)
f64_validate_spacing_loop(ts, centers, min_web, i, j) ==
    IF i > Len(ts) THEN NoError
    ELSE IF j > Len(ts) THEN f64_validate_spacing_loop(ts, centers, min_web, i + 1, i + 2)
    ELSE LET e == f64_spacing_pair(ts[i], ts[j], centers, min_web)
         IN  IF e # NoError THEN e
             ELSE f64_validate_spacing_loop(ts, centers, min_web, i, j + 1)

f64_validate_spacing(ts, centers, p) ==
    f64_validate_spacing_loop(ts, centers, p.min_web, 1, 2)

\* csv rows for the float harness: a 1.0 mm, 1.2 mm or 3.1 mm rod whose handle is
\* as thick as its shaft, or (first row) a regular 19/5 driver, in any cell
F64SizesAt(i) ==
    CASE i % 3 = 1 -> {<<10, 10>>, <<190, 50>>}
      [] i % 3 = 2 -> {<<12, 12>>}
      [] OTHER -> {<<31, 31>>}
F64ToolsAt(i) ==
    {Tool(NameAt(i), r, c, sz[1], sz[2]) : r \in 0..MaxRow, c \in 0..MaxCol, sz \in F64SizesAt(i)}
F64ToolLists ==
    UNION {ListsOver([i \in 1..MaxTools |-> F64ToolsAt(i)], n) : n \in 1..MaxTools}

\* min_web 3 mm or 0, pads 6 mm or 0
F64Params ==
    { [DefaultParams EXCEPT !.min_web = e[1], !.handle_x_pad = e[2], !.handle_y_pad = e[2]] :
        e \in {<<30, 60>>, <<30, 0>>, <<0, 60>>, <<0, 0>>} }

F64ComputeLayout ==
    /\ pc = "fn"
    /\ \E ts \in F64ToolLists, p \in F64Params :
         /\ tools' = ts
         /\ params' = p
         /\ checks' = [checks EXCEPT !.validate_tools = validate_tools(ts)]
         /\ layout' = f64_compute_layout(ts, p)
    /\ pc' = "laid"
    /\ UNCHANGED <<doc, trace, warnings, edges>>

F64ValidateSpacing ==
    /\ pc = "laid"
    /\ checks' = [checks EXCEPT !.validate_spacing =
                    f64_validate_spacing(tools, layout.centers, params)]
    /\ pc' = "spaced"
    /\ UNCHANGED <<doc, tools, params, layout, trace, warnings, edges>>

NextF64 ==
    \/ F64ComputeLayout
    \/ F64ValidateSpacing

SpecF64 == InitFn /\ [][NextF64]_vars

----------------------------------------------------------------------------
(* Properties *)

\* positions of the trace that hold a modeling operation
ModelingIndices == {i \in 1..Len(trace) : trace[i].call \in ModelingCalls}

\* validator v returned (raised nothing) before position i of the trace
ReturnedBefore(v, i) ==
    \E j \in 1..(i - 1) : trace[j].call = v /\ trace[j].args = <<"returned">>

CountCalls(call) == Cardinality({i \in 1..Len(trace) : trace[i].call = call})

\* every halving the layout performs is exact
HalvesExact ==
    layout # NoLayout =>
        /\ \A i \in 1..Len(tools) :
             /\ layout.col_widths[tools[i].col] % 2 = 0
             /\ layout.row_depths[tools[i].row] % 2 = 0
             /\ tools[i].handle_d_mm % 2 = 0
             /\ \A j \in 1..Len(tools) : (tools[i].shaft_d_mm + tools[j].shaft_d_mm) % 2 = 0
        /\ params.mount_hole_d % 2 = 0
        /\ params.base_thickness % 2 = 0
        /\ params.mount_hole_edge_offset_x % 2 = 0

\* C1: in every run no modeling operation is issued unless validate_tools,
\* validate_params, validate_spacing and validate_mount_offsets have all returned
\* without error earlier in that run; a run in which a validator raised has issued
\* no modeling operation.
C1_GateBeforeModeling ==
    /\ \A i \in ModelingIndices :
         \A v \in ValidatorCalls : ReturnedBefore(v, i) /\ checks[v] = NoError
    /\ ModelingIndices # {} =>
         /\ validate_tools(tools) = NoError
         /\ validate_params(params) = NoError
         /\ validate_spacing(tools, layout.centers, params) = NoError
         /\ validate_mount_offsets(params, layout.part_width_mm, layout.part_depth_mm) = NoError
    /\ (\E v \in ValidatorCalls : checks[v] \notin {NotRun, NoError}) => ModelingIndices = {}
    /\ pc = "failed" => ModelingIndices = {}

\* a run stopped by the last validator of the gate, the three before it having passed
C1_RejectedAtLastGate ==
    /\ pc = "failed"
    /\ checks.validate_spacing = NoError
    /\ checks.validate_mount_offsets \notin {NotRun, NoError}
    /\ trace # <<>>

\* generated holder solids the document holds
RECURSIVE HolderCount(_)
HolderCount(bodies_seq) ==
    IF bodies_seq = <<>> THEN 0
    ELSE Cardinality({k \in 1..Len(Head(bodies_seq)) : Head(bodies_seq)[k] = "holder"})
         + HolderCount(Tail(bodies_seq))
HoldersIn(d) ==
    HolderCount(<<d.bodies>> \o [k \in 1..Len(d.occurrences) |-> d.occurrences[k].bodies])

\* C2: after any sequence of one or more successful runs, from any starting
\* document, the design holds exactly one generated holder solid.
C2_OneHolderAfterRuns == pc = "summary" => HoldersIn(doc) = 1

\* tool i's hole-top circle is among the enumerated edges, within tol of
\* (center x, center y, base_thickness + row * row_z_step)
HoleEdgeFound(i) ==
    \E n \in 1..Len(edges.hole) :
        /\ edges.hole[n].circle
        /\ Abs(edges.hole[n].x - mm_to_cm(layout.centers[cell_of(tools[i])][1])) < Tol
        /\ Abs(edges.hole[n].y - mm_to_cm(layout.centers[cell_of(tools[i])][2])) < Tol
        /\ Abs(edges.hole[n].z
               - mm_to_cm(params.base_thickness + tools[i].row * params.row_z_step)) < Tol

\* C3: with mount_style none and every hole-top edge found, a build for n tools
\* on rows 0..max_row issues 1 + max_row + 2 addSimple extrudes, n + 4 cut
\* additions, n chamfers and n text regions (4, 6, 2, 2 for the scenario).
C3_OperationCounts ==
    ( /\ pc = "summary"
      /\ Lower(params.mount_style) = "none"
      /\ \A i \in 1..Len(tools) : HoleEdgeFound(i) )
    => /\ CountCalls("extrudeFeatures.addSimple") = 1 + layout.max_row + 2
       /\ CountCalls("extrudeFeatures.add") = Len(tools) + 4
       /\ CountCalls("chamferFeatures.add") = Len(tools)
       /\ CountCalls("sketchTexts.add") = Len(tools)

ToolsWellFormed(ts) ==
    /\ ts # <<>>
    /\ \A i \in 1..Len(ts) :
         /\ ts[i].name # ""
         /\ ts[i].row >= 0 /\ ts[i].col >= 0
         /\ ts[i].handle_d_mm > 0 /\ ts[i].shaft_d_mm > 0
    /\ \A i, j \in 1..Len(ts) : i # j => cell_of(ts[i]) # cell_of(ts[j])

TooTight(i, j) ==
    LET ci == layout.centers[cell_of(tools[i])]
        cj == layout.centers[cell_of(tools[j])]
        need == tools[i].shaft_d_mm + tools[j].shaft_d_mm + 2 * params.min_web
    IN  \/ tools[i].row = tools[j].row /\ 2 * Abs(ci[1] - cj[1]) < need
        \/ tools[i].col = tools[j].col /\ 2 * Abs(ci[2] - cj[2]) < need

C6_MountOffsetsIff ==
    checks.validate_mount_offsets # NotRun =>
        ((checks.validate_mount_offsets = NoError) <=>
            /\ 2 * params.mount_hole_edge_offset_x > params.mount_hole_d + 2 * params.min_web
            /\ 2 * params.mount_hole_edge_offset_y > params.mount_hole_d + 2 * params.min_web
            /\ 2 * params.mount_hole_edge_offset_x
                 < 2 * layout.part_width_mm - params.mount_hole_d - 2 * params.min_web
            /\ 2 * params.mount_hole_edge_offset_y
                 < 2 * layout.part_depth_mm - params.mount_hole_d - 2 * params.min_web)

\* an X offset exactly on the upper limit, rejected
C6_OnUpperLimitRejected ==
    /\ checks.validate_mount_offsets \notin {NotRun, NoError}
    /\ 2 * params.mount_hole_edge_offset_x
         = 2 * layout.part_width_mm - params.mount_hole_d - 2 * params.min_web
    /\ 2 * params.mount_hole_edge_offset_y > params.mount_hole_d + 2 * params.min_web

OccupiedCols == {tools[i].col : i \in 1..Len(tools)}
OccupiedRows == {tools[i].row : i \in 1..Len(tools)}

\* C7: for a list validate_tools accepts and min_web >= 0 the grid is dense:
\* col_widths is defined exactly on 0..max_col and row_depths on 0..max_row, the
\* maxima being the highest occupied indices; every size is >= min_web and every
\* unoccupied index has size min_web.
C7_DenseGrid ==
    (layout # NoLayout /\ validate_tools(tools) = NoError /\ params.min_web >= 0) =>
        /\ layout.max_col = SetMax(OccupiedCols)
        /\ layout.max_row = SetMax(OccupiedRows)
        /\ DOMAIN layout.col_widths = 0..layout.max_col
        /\ DOMAIN layout.row_depths = 0..layout.max_row
        /\ \A c \in 0..layout.max_col :
             /\ layout.col_widths[c] >= params.min_web
             /\ c \notin OccupiedCols => layout.col_widths[c] = params.min_web
        /\ \A r \in 0..layout.max_row :
             /\ layout.row_depths[r] >= params.min_web
             /\ r \notin OccupiedRows => layout.row_depths[r] = params.min_web

\* a validated list that leaves a column below its highest column empty
C7_GapColumn ==
    /\ layout # NoLayout
    /\ validate_tools(tools) = NoError
    /\ \E c \in 0..layout.max_col : c \notin OccupiedCols

\* sum of the sizes of a dict over a set of its keys
RECURSIVE SumOver(_, _)
SumOver(sizes, keys) ==
    IF keys = {} THEN 0
    ELSE LET k == CHOOSE x \in keys : TRUE
         IN  sizes[k] + SumOver(sizes, keys \ {k})

\* C8: part_width_mm is 2 * edge_margin_x plus the sum of col_widths over
\* 0..max_col and part_depth_mm is 2 * edge_margin_y plus the sum of row_depths
\* over 0..max_row, unoccupied indices included.
C8_PartSizeIsSum ==
    layout # NoLayout =>
        /\ layout.part_width_mm
             = 2 * params.edge_margin_x + SumOver(layout.col_widths, 0..layout.max_col)
        /\ layout.part_depth_mm
             = 2 * params.edge_margin_y + SumOver(layout.row_depths, 0..layout.max_row)

\* a layout whose depth counts a row that holds no tool
C8_GapRowCounted ==
    /\ layout # NoLayout
    /\ params.min_web > 0
    /\ \E r \in 0..layout.max_row : r \notin OccupiedRows
    /\ layout.part_depth_mm
         > 2 * params.edge_margin_y + SumOver(layout.row_depths, OccupiedRows)

HoleChamfers(i) ==
    {k \in 1..Len(trace) :
        /\ trace[k].call = "chamferFeatures.add"
        /\ trace[k].args[3] = "hole"
        /\ trace[k].args[4] = i}

ChamferWarnings ==
    {k \in 1..Len(warnings) : warnings[k][1] = "Could not find chamfer edge for"}

\* C9: in the hole-chamfer step each tool whose hole-top edge is found gets exactly
\* one chamfer and no warning, each tool whose edge is not found gets no chamfer
\* and exactly one warning naming it, whatever happens to the other tools:
\* chamfers + chamfer warnings = tools.
C9_ChamferOrWarn ==
    pc = "summary" =>
        /\ \A i \in 1..Len(tools) :
             LET named == {k \in ChamferWarnings : warnings[k][2] = tools[i].name}
             IN  IF HoleEdgeFound(i)
                 THEN Cardinality(HoleChamfers(i)) = 1 /\ named = {}
                 ELSE HoleChamfers(i) = {} /\ Cardinality(named) = 1
        /\ Cardinality(UNION {HoleChamfers(i) : i \in 1..Len(tools)})
             + Cardinality(ChamferWarnings) = Len(tools)

\* the first tool's edge is missing and a later tool is chamfered all the same
C9_MissThenChamfer ==
    /\ pc = "summary"
    /\ Len(tools) = 2
    /\ ~HoleEdgeFound(1)
    /\ HoleEdgeFound(2)
    /\ HoleChamfers(2) # {}

\* the back-face edge of mounting hole k is among the enumerated edges
MountEdgeFound(k) ==
    LET pos == hole_positions(layout, params)[k]
        back_y == mm_to_cm(base_depth_of(layout, params) + params.mount_hole_edge_offset_y)
    IN  \E n \in 1..Len(edges.mount) :
            /\ edges.mount[n].circle
            /\ edges.mount[n].x = mm_to_cm(pos[1])
            /\ edges.mount[n].z = mm_to_cm(0 - pos[2])
            /\ Abs(edges.mount[n].y - back_y) <= Tol
            /\ Abs(edges.mount[n].radius - mm_to_cm(Half(params.mount_hole_d))) <= Tol

\* warnings that are neither hole-chamfer nor label warnings
OtherWarnings ==
    {k \in 1..Len(warnings) :
        warnings[k][1] \notin {"Could not find chamfer edge for", "Text for"}}

\* C10: with mount_style countersink every mounting hole whose back-face edge is
\* not found yields a warning in the list build_holder returns, and the run completes.
C10_CountersinkMissWarned ==
    (pc = "summary" /\ Lower(params.mount_style) = "countersink") =>
        Cardinality(OtherWarnings)
            >= Cardinality({k \in 1..4 : ~MountEdgeFound(k)})

\* positions of the trace that add the label text of tool i (names are unique in a csv)
LabelTexts(i) ==
    {k \in 1..Len(trace) :
        trace[k].call = "sketchTexts.add" /\ trace[k].args[1] = tools[i].name}

\* clamp warnings that name tool i
ClampWarnings(i) ==
    {k \in 1..Len(warnings) :
        warnings[k][1] = "Text for" /\ warnings[k][2] = tools[i].name}

\* front of a row: edge_margin_y plus the depths of the rows before it
RowStart(row) == params.edge_margin_y + SumOver(layout.row_depths, 0..(row - 1))

\* the lowest and the highest label position allowed in a row
LabelLow(row) == RowStart(row) + params.min_web
LabelHigh(row) == RowStart(row) + layout.row_depths[row] - params.min_web

\* the label position before clamping: center y - (handle_d / 2 + text_y_dist)
LabelDefaultY(i) ==
    layout.centers[cell_of(tools[i])][2] - (Half(tools[i].handle_d_mm) + params.text_y_dist)

\* C11: for every tool of a validated input the label's y is the default position
\* clamped into [row start + min_web, row end - min_web]: the position used lies in
\* that interval, and a clamp warning naming the tool is recorded exactly once when
\* the default position lay outside it and not at all otherwise.
C11_LabelClamped ==
    pc = "summary" =>
        \A i \in 1..Len(tools) :
            LET lo == LabelLow(tools[i].row)
                hi == LabelHigh(tools[i].row)
                y0 == LabelDefaultY(i)
            IN  /\ Cardinality(LabelTexts(i)) = 1
                /\ \A k \in LabelTexts(i) :
                     /\ trace[k].args[3] >= lo
                     /\ trace[k].args[3] <= hi
                     /\ trace[k].args[3] = (IF y0 < lo THEN lo ELSE IF y0 > hi THEN hi ELSE y0)
                /\ Cardinality(ClampWarnings(i)) = (IF y0 < lo \/ y0 > hi THEN 1 ELSE 0)

\* positions of the trace that hold a cut through all, a cut to a depth, a
\* countersink chamfer
ThroughCuts ==
    {k \in 1..Len(trace) :
        trace[k].call = "extrudeFeatures.add" /\ trace[k].args[2] = "ThroughAll"}
DepthCuts ==
    {k \in 1..Len(trace) :
        trace[k].call = "extrudeFeatures.add" /\ trace[k].args[2] = "Distance"}
MountChamfers ==
    {k \in 1..Len(trace) :
        trace[k].call = "chamferFeatures.add" /\ trace[k].args[3] = "mount"}

\* operations on the body issued after the last cut through all
Finishing ==
    {k \in 1..Len(trace) :
        /\ trace[k].call \in BodyChangingCalls
        /\ \A c \in ThroughCuts : c < k}

\* C12: whatever the mount style, a build issues n tool-hole plus 4 mounting-hole
\* cuts through all; after them style none issues nothing, counterbore exactly 4
\* cuts to a depth and countersink only chamfers.
C12_StyleKeepsThroughCuts ==
    pc = "summary" =>
        /\ Cardinality(ThroughCuts) = Len(tools) + 4
        /\ Lower(params.mount_style) = "none" => Finishing = {}
        /\ Lower(params.mount_style) = "counterbore" =>
             Finishing = DepthCuts /\ Cardinality(DepthCuts) = 4
        /\ Lower(params.mount_style) = "countersink" =>
             Finishing = MountChamfers /\ DepthCuts = {}

\* a counterbore build of two tools: 6 cuts through all, then 4 pockets
C12_CounterborePockets ==
    /\ pc = "summary"
    /\ Lower(params.mount_style) = "counterbore"
    /\ Len(tools) = 2
    /\ Cardinality(ThroughCuts) = 6
    /\ Cardinality(DepthCuts) = 4

\* positions of the trace that hold a chamfer, an enumeration of the body's edges
Chamfers == {k \in 1..Len(trace) : trace[k].call = "chamferFeatures.add"}
EdgeScans == {k \in 1..Len(trace) : trace[k].call = "body.edges"}

\* C13: the edge handle passed to a chamfer comes from an enumeration of the body's
\* edges made after the most recent operation that changed the body: between the
\* last enumeration before a chamfer and that chamfer no cut, join or chamfer is issued.
C13_EdgeHandlesFresh ==
    \A k \in Chamfers :
        \E e \in EdgeScans :
            /\ e < k
            /\ \A j \in (e + 1)..(k - 1) : trace[j].call \notin BodyChangingCalls

\* indices in the enumerated edges of the circular edges within tol of the expected
\* hole-top center of tool i
MatchingEdges(i) ==
    {n \in 1..Len(edges.hole) :
        /\ edges.hole[n].circle
        /\ Abs(edges.hole[n].x - mm_to_cm(layout.centers[cell_of(tools[i])][1])) < Tol
        /\ Abs(edges.hole[n].y - mm_to_cm(layout.centers[cell_of(tools[i])][2])) < Tol
        /\ Abs(edges.hole[n].z
               - mm_to_cm(params.base_thickness + tools[i].row * params.row_z_step)) < Tol}

\* C14: when several circular edges lie within tol of a tool's expected hole-top
\* center, the edge chamfered for the tool is the first of them in the order the
\* body enumerates its edges.
C14_FirstMatchChamfered ==
    pc = "summary" =>
        \A i \in 1..Len(tools) :
            \A k \in HoleChamfers(i) :
                /\ trace[k].args[2] \in MatchingEdges(i)
                /\ \A n \in MatchingEdges(i) : trace[k].args[2] <= n

\* positions of the trace that hold the rectangle of the base slab (sketched on the
\* xY plane itself) and the rectangles of the step tiers (sketched on offset planes)
BaseRects ==
    {k \in 2..Len(trace) :
        /\ trace[k].call = "addTwoPointRectangle"
        /\ trace[k - 1].call = "sketches.add"
        /\ trace[k - 1].args = <<"xY", 0>>}
TierRects ==
    {k \in 2..Len(trace) :
        /\ trace[k].call = "addTwoPointRectangle"
        /\ trace[k - 1].call = "sketches.add"
        /\ trace[k - 1].args[1] = "xY"
        /\ trace[k - 1].args[2] > 0}

Covers(k, x, y) ==
    /\ trace[k].args[1] <= x /\ x <= trace[k].args[3]
    /\ trace[k].args[2] <= y /\ y <= trace[k].args[4]

\* z of the top of the solid above (x, y) once the first n operations of the trace
\* are done: a slab sketched at or below the current top and extruded upward
\* raises the top to its plane's z plus its extrude distance
RECURSIVE TopAfter(_, _, _)
TopAfter(x, y, n) ==
    IF n = 0 THEN 0
    ELSE LET below == TopAfter(x, y, n - 1)
         IN  IF /\ n > 1
                /\ trace[n].call = "addTwoPointRectangle"
                /\ trace[n - 1].args[1] = "xY"
                /\ Covers(n, x, y)
                /\ trace[n - 1].args[2] <= below
             THEN Max(below, trace[n - 1].args[2] + trace[n + 1].args[2])
             ELSE below

\* z of the sketch plane of the text added at position k of the trace
LabelPlaneZ(k) ==
    LET s == CHOOSE j \in 1..(k - 1) :
                 /\ trace[j].call = "sketches.add"
                 /\ \A m \in (j + 1)..(k - 1) : trace[m].call # "sketches.add"
    IN  trace[s].args[2]

PipelineIndices ==
    {k \in 1..Len(trace) : trace[k].call \in BodyChangingCalls \cup {"body.edges"}}

\* the stage of the build the operation at position k belongs to: 1 base new body,
\* 2 step join, 3 tool-hole through cut, 4 tool-hole edge scan and chamfers,
\* 5 label extrude, 6 mounting-plate join, 7 mounting through cut, 8 finishing
\* (counterbore pockets, countersink edge scan and chamfers)
Stage(k) ==
    LET e == trace[k]
    IN  CASE e.call = "extrudeFeatures.addSimple" /\ e.args[1] = "NewBody" -> 1
          [] e.call = "extrudeFeatures.addSimple" /\ e.args[1] # "NewBody" /\ Len(e.args) = 3 -> 5
          [] e.call = "extrudeFeatures.addSimple" /\ e.args[1] # "NewBody" /\ Len(e.args) = 2 ->
                IF trace[k - 2].args[1] = "xY" THEN 2 ELSE 6
          [] e.call = "extrudeFeatures.add" /\ e.args[2] = "ThroughAll" ->
                IF e.args[3] = "Positive" THEN 3 ELSE 7
          [] e.call = "extrudeFeatures.add" /\ e.args[2] # "ThroughAll" -> 8
          [] e.call = "chamferFeatures.add" -> IF e.args[3] = "hole" THEN 4 ELSE 8
          [] e.call = "body.edges" -> IF e.args[1] = "hole" THEN 4 ELSE 8

StageIndices(n) == {k \in PipelineIndices : Stage(k) = n}

LabelExtrudes ==
    {k \in 1..Len(trace) :
        trace[k].call = "extrudeFeatures.addSimple" /\ Len(trace[k].args) = 3}
LabelSketches ==
    {k \in 2..(Len(trace) - 1) :
        /\ trace[k].call = "sketches.add"
        /\ trace[k + 1].call = "sketchTexts.add"}

\* C18: for each occupied row the label step creates one construction plane and
\* one sketch holding one text per tool of the row, and extrudes the texts of the
\* row in a single join by emboss_height, so the label extrudes number as many as
\* the occupied rows.
C18_OneLabelExtrudePerRow ==
    pc = "summary" =>
        /\ \A row \in OccupiedRows :
             \E s \in LabelSketches :
                /\ trace[s].args[2] = params.base_thickness + row * params.row_z_step
                /\ trace[s - 1] = Ev("constructionPlanes.add", trace[s].args)
                /\ \A u \in LabelSketches : trace[u].args = trace[s].args => u = s
                /\ \A i \in 1..Len(tools) :
                     tools[i].row = row =>
                        /\ Cardinality(LabelTexts(i)) = 1
                        /\ \A k \in LabelTexts(i) : LabelPlaneZ(k) = trace[s].args[2]
        /\ Cardinality(LabelSketches) = Cardinality(OccupiedRows)
        /\ \A k \in LabelExtrudes : trace[k].args[1] = "Join" /\ trace[k].args[2] = params.emboss_height
        /\ Cardinality(LabelExtrudes) = Cardinality(OccupiedRows)

\* the circle _create_tool_holes draws for tool i: <<x, y, radius>>
CutCircle(i) ==
    LET c == layout.centers[cell_of(tools[i])]
    IN  <<c[1], c[2], Half(tools[i].shaft_d_mm + params.hole_buffer)>>

\* two circles have no point in common and neither lies inside the other's reach:
\* their centers are further apart than the sum of the radii
Apart(a, b) ==
    (a[1] - b[1]) * (a[1] - b[1]) + (a[2] - b[2]) * (a[2] - b[2])
        > (a[3] + b[3]) * (a[3] + b[3])

\* C19: for tools and parameters that pass validate_tools and validate_spacing on
\* the layout of compute_layout, the cut circles (diameter shaft + hole_buffer at
\* the layout centers) of any two distinct tools do not intersect, pairs that share
\* neither a row nor a column included.
C19_CutCirclesDisjoint ==
    (pc = "spaced" /\ validate_tools(tools) = NoError /\ checks.validate_spacing = NoError) =>
        \A i, j \in 1..Len(tools) : i < j => Apart(CutCircle(i), CutCircle(j))

\* the mounting-hole circle at <<x, z>> of radius r lies inside one wing of the
\* plate in x and inside the plate's height in z (sketch coordinates)
InsideWing(x, z, r) ==
    LET wing == params.mount_hole_edge_offset_x
        height == (params.base_thickness + layout.max_row * params.row_z_step)
                      + params.base_thickness
    IN  /\ \/ (0 - wing <= x - r /\ x + r <= 0)
           \/ (layout.part_width_mm <= x - r /\ x + r <= layout.part_width_mm + wing)
        /\ 0 - height <= z - r
        /\ z + r <= 0

\* C20: for parameters that pass validate_mount_offsets, each of the four
\* mounting-hole circles (radius mount_hole_d / 2) lies entirely inside the plate's
\* wing region: within x of [-wing, 0] or [part width, part width + wing] and within
\* the plate's height base_thickness + max_row * row_z_step + base_thickness.
C20_MountHolesInsideWings ==
    (pc = "validated" /\ checks.validate_mount_offsets = NoError) =>
        \A k \in 1..4 :
            LET pos == hole_positions(layout, params)
            IN  InsideWing(pos[k][1], pos[k][2], Half(params.mount_hole_d))

\* every tool's shaft is at most as thick as its handle
ShaftsWithinHandles == \A i \in 1..Len(tools) : tools[i].shaft_d_mm <= tools[i].handle_d_mm

\* C21: if the tool list passes validate_tools, min_web >= 0 and every shaft
\* diameter is <= the handle diameter, validate_spacing does not fail on the centers
\* of compute_layout, whatever handle_x_pad and handle_y_pad are.
C21_CellSizingSuffices ==
    (/\ pc = "spaced"
     /\ checks.validate_tools = NoError
     /\ params.min_web >= 0
     /\ ShaftsWithinHandles) => checks.validate_spacing = NoError

====
